---- MODULE Spec2Model ----
(***************************************************************************)
(* Model of combine_images.py: combine() composites a screenshot and a     *)
(* logo into one RGBA canvas and saves it.                                 *)
(*                                                                         *)
(* An image object lives in `heap` under an identifier; Python variables   *)
(* (a, logo, frame, ...) hold identifiers, so aliasing (a_rounded is a)    *)
(* is visible.  The value of an image is kept as the term that built it    *)
(* (new / rounded_rectangle / putalpha / paste / crop / resize of an input *)
(* file), and Px(t, x, y) computes the pixel the imaging library would     *)
(* hold at (x, y).  Pixels are <<r, g, b, a>> with 8-bit channels; a mode  *)
(* "L" image has single-number pixels; a mode "RGB" file has <<r, g, b>>.  *)
(***************************************************************************)
EXTENDS Integers, Sequences, FiniteSets, TLC

VARIABLES pc, heap, nalloc, a, logo, frame, a_rounded, logo_scaled, canvas,
          frame_size, logo_overlap, total, window, logo_pos, bbox,
          saved, printed, err

vars == <<pc, heap, nalloc, a, logo, frame, a_rounded, logo_scaled, canvas,
          frame_size, logo_overlap, total, window, logo_pos, bbox,
          saved, printed, err>>

----------------------------------------------------------------------------
(* Bounds of the model *)

\* small screenshot sides range over 1..MaxSmallSide
MaxSmallSide == 2

----------------------------------------------------------------------------
(* Constants of the script *)

padding_x == 40
padding_top == 40
padding_bottom == 40
frame_radius == 60
a_radius == 10
thumb_side == 650
canvas_padding == 200
final_padding == 100
bg_color == <<20, 20, 20, 255>>
transparent == <<0, 0, 0, 0>>

----------------------------------------------------------------------------
(* Pixel arithmetic of the imaging library *)

Abs(n) == IF n < 0 THEN -n ELSE n
Max2(m, n) == IF m >= n THEN m ELSE n

\* rounded division by 255 as the library's 8-bit blend computes it
DIV255(v) == LET tmp == v + 128 IN ((tmp \div 256) + tmp) \div 256

\* in1 where mask = 0, in2 where mask = 255, a mix in between
BLEND8(mask, in1, in2) == DIV255(in1 * (255 - mask) + in2 * mask)

\* (mutant) the mask applied the wrong way round
BlendPx_Swapped(dst, src, m) ==
  IF m = 0 THEN src
  ELSE IF m = 255 THEN dst
  ELSE <<BLEND8(m, src[1], dst[1]), BLEND8(m, src[2], dst[2]),
         BLEND8(m, src[3], dst[3]), BLEND8(m, src[4], dst[4])>>

\* paste with a mask blends all four bands, alpha included
BlendPx(dst, src, m) ==
  IF m = 0 THEN dst
  ELSE IF m = 255 THEN src
  ELSE <<BLEND8(m, dst[1], src[1]), BLEND8(m, dst[2], src[2]),
         BLEND8(m, dst[3], src[3]), BLEND8(m, dst[4], src[4])>>

----------------------------------------------------------------------------
(* ImageDraw.rounded_rectangle((0, 0) + size, radius, fill) on an image of *)
(* size (W, H): the box runs to (W, H), one past the last pixel.  The      *)
(* library joins corners whose diameter does not fit, and draws an ellipse *)
(* when both pairs are joined.  Arcs are taken as the circle (ellipse) of  *)
(* that diameter, a pixel counting as covered within half a pixel of it.   *)

RoundedFullX(W, radius) == 2 * radius >= W - 1

RoundedFullY(W, H, radius) ==
  (IF RoundedFullX(W, radius) THEN W ELSE 2 * radius) >= H - 1

\* the corner diameter the library ends up drawing with
RoundedD(W, H, radius) ==
  IF RoundedFullY(W, H, radius) THEN H
  ELSE IF RoundedFullX(W, radius) THEN W
  ELSE 2 * radius

\* distance (doubled coordinates) from v2 to the interval lo2..hi2
Outside(v2, lo2, hi2) ==
  IF v2 < lo2 THEN lo2 - v2 ELSE IF v2 > hi2 THEN v2 - hi2 ELSE 0

InEllipse(x, y, W, H) ==
  (2 * x - W) * (2 * x - W) * (H + 1) * (H + 1)
    + (2 * y - H) * (2 * y - H) * (W + 1) * (W + 1)
  < (W + 1) * (W + 1) * (H + 1) * (H + 1)

InRounded(x, y, W, H, radius) ==
  /\ 0 <= x /\ x <= W /\ 0 <= y /\ y <= H
  /\ IF radius = 0 THEN TRUE
     ELSE IF RoundedFullX(W, radius) /\ RoundedFullY(W, H, radius)
       THEN InEllipse(x, y, W, H)
     ELSE LET d  == RoundedD(W, H, radius)
              dx == Outside(2 * x, d, 2 * W - d)
              dy == Outside(2 * y, d, 2 * H - d)
          IN  dx * dx + dy * dy < (d + 1) * (d + 1)

----------------------------------------------------------------------------
(* Input files.  A file is [k |-> "file", mode, w, h, pat]; pat names the  *)
(* picture it holds.                                                       *)

ink == <<200, 100, 50>>

FilePx(f, x, y) ==
  CASE f.pat = "solid" -> IF f.mode = "RGB" THEN ink ELSE ink \o <<255>>
    [] f.pat = "soft"  -> ink \o <<128>>
    [] f.pat = "holes" -> IF (x + y) % 2 = 0 THEN ink \o <<255>>
                          ELSE <<9, 9, 9, 0>>
    \* a faint top row and right column around an opaque body
    [] f.pat = "faint" -> IF y = 0 \/ x = f.w - 1 THEN ink \o <<20>>
                          ELSE ink \o <<255>>

\* Image.convert("RGBA") of one pixel: an RGB pixel becomes opaque
ConvertRGBA(mode, p) == IF mode = "RGB" THEN p \o <<255>> ELSE p

----------------------------------------------------------------------------
(* Image terms and their pixels *)

NoImage == [k |-> "none"]

New(mode, w, h, fill) == [k |-> "new", mode |-> mode, w |-> w, h |-> h, fill |-> fill]

Open(f) == [k |-> "open", mode |-> "RGBA", w |-> f.w, h |-> f.h, file |-> f]

RoundedRectangle(t, radius, fill) ==
  [k |-> "rrect", mode |-> t.mode, w |-> t.w, h |-> t.h, on |-> t,
   radius |-> radius, fill |-> fill]

PutAlpha(t, mask) ==
  [k |-> "putalpha", mode |-> t.mode, w |-> t.w, h |-> t.h, on |-> t, mask |-> mask]

\* Image.paste(src, (x, y), mask): the part of src that falls outside is dropped.
\* own records that the mask is the pasted image itself (it is then not stored twice)
Paste(t, src, x, y, mask) ==
  [k |-> "paste", mode |-> t.mode, w |-> t.w, h |-> t.h, on |-> t,
   src |-> src, x |-> x, y |-> y, own |-> (mask = src),
   mask |-> IF mask = src THEN NoImage ELSE mask]

\* Image.crop(box), box = <<left, upper, right, lower>>
Crop(t, box) ==
  [k |-> "crop", mode |-> t.mode, w |-> box[3] - box[1], h |-> box[4] - box[2],
   of |-> t, left |-> box[1], upper |-> box[2]]

\* resize of a picture of one colour: every resampled pixel has that colour
Resize(t, w, h) ==
  [k |-> "resize", mode |-> t.mode, w |-> w, h |-> h, of |-> t]

RECURSIVE Px(_, _, _)
Px(t, x, y) ==
  CASE t.k = "new"  -> t.fill
    [] t.k = "open" -> ConvertRGBA(t.file.mode, FilePx(t.file, x, y))
    [] t.k = "rrect" ->
         IF InRounded(x, y, t.w, t.h, t.radius) THEN t.fill ELSE Px(t.on, x, y)
    [] t.k = "putalpha" ->
         LET p == Px(t.on, x, y) IN <<p[1], p[2], p[3], Px(t.mask, x, y)>>
    [] t.k = "paste" ->
         LET sx == x - t.x
             sy == y - t.y
         IN  IF sx >= 0 /\ sx < t.src.w /\ sy >= 0 /\ sy < t.src.h
               THEN LET s == Px(t.src, sx, sy)
                        m == IF t.own THEN s[4]
                             ELSE IF t.mask.mode = "L" THEN Px(t.mask, sx, sy)
                             ELSE Px(t.mask, sx, sy)[4]
                    IN  BlendPx(Px(t.on, x, y), s, m)
               ELSE Px(t.on, x, y)
    [] t.k = "crop" -> Px(t.of, x + t.left, y + t.upper)
    [] t.k = "resize" -> Px(t.of, 0, 0)

Alpha(t, x, y) == Px(t, x, y)[4]

\* Image.getbbox() of an RGBA image: the box of the pixels whose alpha is not 0,
\* <<left, upper, right, lower>> with right and lower exclusive; None when empty
None == <<>>

GetBBox(t) ==
  LET cols == {x \in 0..(t.w - 1) : \E y \in 0..(t.h - 1) : Alpha(t, x, y) # 0}
  IN  IF cols = {} THEN None
      ELSE LET rows == {y \in 0..(t.h - 1) : \E x \in cols : Alpha(t, x, y) # 0}
               left  == CHOOSE x \in cols : \A z \in cols : x <= z
               right == CHOOSE x \in cols : \A z \in cols : x >= z
               upper == CHOOSE y \in rows : \A z \in rows : y <= z
               lower == CHOOSE y \in rows : \A z \in rows : y >= z
           IN  <<left, upper, right + 1, lower + 1>>

----------------------------------------------------------------------------
(* Image.thumbnail((650, 650)): the size that fits, keeping the aspect     *)
(* ratio; an image that already fits is left alone.                        *)

\* max(min(floor, ceil, key), 1) with the key |aspect - n / side|, aspect = w / h
RoundAspectX(w, h, side) ==
  LET fl == (side * w) \div h
      ce == IF (side * w) % h = 0 THEN fl ELSE fl + 1
      pick == IF Abs(side * w - fl * h) <= Abs(side * w - ce * h) THEN fl ELSE ce
  IN  Max2(pick, 1)

\* the same with the key 0 for n = 0, |aspect - side / n| otherwise
RoundAspectY(w, h, side) ==
  LET fl == (side * h) \div w
      ce == IF (side * h) % w = 0 THEN fl ELSE fl + 1
      pick == IF fl = 0 THEN fl
              ELSE IF Abs(w * fl - side * h) * ce <= Abs(w * ce - side * h) * fl
                THEN fl ELSE ce
  IN  Max2(pick, 1)

ThumbnailSize(w, h, side) ==
  IF side >= w /\ side >= h THEN <<w, h>>
  ELSE IF h >= w THEN <<RoundAspectX(w, h, side), side>>
  ELSE <<side, RoundAspectY(w, h, side)>>

Thumbnail(t, side) ==
  LET size == ThumbnailSize(t.w, t.h, side)
  IN  IF size = <<t.w, t.h>> THEN t ELSE Resize(t, size[1], size[2])

\* (mutant) the rounded image composed by a masked paste, which keeps the
\* transparency the image had
AddRoundedCorners_KeepAlpha(t, radius) ==
  Paste(New("RGBA", t.w, t.h, transparent), t, 0, 0,
        RoundedRectangle(New("L", t.w, t.h, 0), radius, 255))

\* add_rounded_corners(img, radius) on the value of img: the new value of the
\* same object
AddRoundedCorners(t, radius) ==
  PutAlpha(t, RoundedRectangle(New("L", t.w, t.h, 0), radius, 255))

----------------------------------------------------------------------------
(* The files that may be on disk *)

File(mode, w, h, pat) == [k |-> "file", mode |-> mode, w |-> w, h |-> h, pat |-> pat]

SmallSides == 1..MaxSmallSide

\* tiny screenshots (the frame is a disc), one with transparency, and one wide
\* enough for the frame and the screenshot to keep four separate corners
Screenshots ==
  {File("RGB", w, 1, "solid") : w \in SmallSides}
    \cup {File("RGBA", 2, 2, "holes"), File("RGBA", 45, 45, "holes")}

\* small logos, logos as long as the thumbnail box, and logos larger than it;
\* a logo larger than the box is resampled: those are of one colour
Logos ==
  {File("RGBA", w + 1, w + 1, "faint") : w \in SmallSides}
    \cup {File("RGBA", 650, 1, "holes"), File("RGBA", 2, 650, "soft"),
          File("RGBA", 1300, 2, "solid"), File("RGBA", 3, 1300, "solid")}

----------------------------------------------------------------------------
(* combine() *)

Ids == 1..8

Alloc(t) == [heap EXCEPT ![nalloc + 1] = t]

Size(id) == <<heap[id].w, heap[id].h>>

Init ==
  /\ pc = "open_a"
  /\ heap = [i \in Ids |-> NoImage]
  /\ nalloc = 0
  /\ a = 0 /\ logo = 0 /\ frame = 0 /\ a_rounded = 0 /\ logo_scaled = 0 /\ canvas = 0
  /\ frame_size = None /\ logo_overlap = None /\ total = None
  /\ window = None /\ logo_pos = None /\ bbox = None
  /\ saved = NoImage
  /\ printed = FALSE
  /\ err = "none"

\* line 12: a = Image.open(...).convert("RGBA")
OpenA ==
  /\ pc = "open_a"
  /\ \E f \in Screenshots :
       /\ heap' = Alloc(Open(f))
       /\ nalloc' = nalloc + 1
       /\ a' = nalloc + 1
  /\ pc' = "open_logo"
  /\ UNCHANGED <<logo, frame, a_rounded, logo_scaled, canvas, frame_size,
                 logo_overlap, total, window, logo_pos, bbox, saved, printed, err>>

\* line 12 raising: missing file or decode error
OpenAFails ==
  /\ pc = "open_a"
  /\ pc' = "error"
  /\ err' = "open_a"
  /\ UNCHANGED <<heap, nalloc, a, logo, frame, a_rounded, logo_scaled, canvas,
                 frame_size, logo_overlap, total, window, logo_pos, bbox, saved, printed>>

\* line 13: logo = Image.open(...).convert("RGBA")
OpenLogo ==
  /\ pc = "open_logo"
  /\ \E f \in Logos :
       /\ heap' = Alloc(Open(f))
       /\ nalloc' = nalloc + 1
       /\ logo' = nalloc + 1
  /\ pc' = "new_frame"
  /\ UNCHANGED <<a, frame, a_rounded, logo_scaled, canvas, frame_size,
                 logo_overlap, total, window, logo_pos, bbox, saved, printed, err>>

\* line 13 raising
OpenLogoFails ==
  /\ pc = "open_logo"
  /\ pc' = "error"
  /\ err' = "open_logo"
  /\ UNCHANGED <<heap, nalloc, a, logo, frame, a_rounded, logo_scaled, canvas,
                 frame_size, logo_overlap, total, window, logo_pos, bbox, saved, printed>>

\* (mutant) the padding counted once
FrameSize_OnePad(size) == <<size[1] + padding_x, size[2] + padding_top>>

\* line 23
FrameSize(size) == <<size[1] + padding_x * 2, size[2] + padding_top + padding_bottom>>

\* lines 23-24: frame = Image.new("RGBA", frame_size, (0, 0, 0, 0))
NewFrame ==
  /\ pc = "new_frame"
  /\ frame_size' = FrameSize(Size(a))
  /\ heap' = Alloc(New("RGBA", frame_size'[1], frame_size'[2], transparent))
  /\ nalloc' = nalloc + 1
  /\ frame' = nalloc + 1
  /\ pc' = "draw_frame"
  /\ UNCHANGED <<a, logo, a_rounded, logo_scaled, canvas, logo_overlap, total,
                 window, logo_pos, bbox, saved, printed, err>>

\* lines 27-29: draw.rounded_rectangle((0, 0) + frame_size, frame_radius, fill=bg_color)
DrawFrame ==
  /\ pc = "draw_frame"
  /\ heap' = [heap EXCEPT ![frame] = RoundedRectangle(@, frame_radius, bg_color)]
  /\ pc' = "round"
  /\ UNCHANGED <<nalloc, a, logo, frame, a_rounded, logo_scaled, canvas, frame_size,
                 logo_overlap, total, window, logo_pos, bbox, saved, printed, err>>

\* line 32 and lines 3-8: a_rounded = add_rounded_corners(a, 10); the mask is a
\* new image, img is changed in place and returned
RoundCorners ==
  /\ pc = "round"
  /\ LET t == AddRoundedCorners(heap[a], a_radius)
     IN  heap' = [heap EXCEPT ![nalloc + 1] = t.mask, ![a] = t]
  /\ nalloc' = nalloc + 1
  /\ a_rounded' = a
  /\ pc' = "paste_a"
  /\ UNCHANGED <<a, logo, frame, logo_scaled, canvas, frame_size, logo_overlap,
                 total, window, logo_pos, bbox, saved, printed, err>>

\* line 33: frame.paste(a_rounded, (padding_x, padding_top), a_rounded)
PasteA ==
  /\ pc = "paste_a"
  /\ heap' = [heap EXCEPT ![frame] =
                Paste(@, heap[a_rounded], padding_x, padding_top, heap[a_rounded])]
  /\ pc' = "copy_logo"
  /\ UNCHANGED <<nalloc, a, logo, frame, a_rounded, logo_scaled, canvas, frame_size,
                 logo_overlap, total, window, logo_pos, bbox, saved, printed, err>>

\* line 36: logo_scaled = logo.copy()
CopyLogo ==
  /\ pc = "copy_logo"
  /\ heap' = Alloc(heap[logo])
  /\ nalloc' = nalloc + 1
  /\ logo_scaled' = nalloc + 1
  /\ pc' = "thumbnail"
  /\ UNCHANGED <<a, logo, frame, a_rounded, canvas, frame_size, logo_overlap,
                 total, window, logo_pos, bbox, saved, printed, err>>

\* line 37: logo_scaled.thumbnail((650, 650), Image.LANCZOS), in place
ThumbnailLogo ==
  /\ pc = "thumbnail"
  /\ heap' = [heap EXCEPT ![logo_scaled] = Thumbnail(@, thumb_side)]
  /\ pc' = "new_canvas"
  /\ UNCHANGED <<nalloc, a, logo, frame, a_rounded, logo_scaled, canvas, frame_size,
                 logo_overlap, total, window, logo_pos, bbox, saved, printed, err>>

\* lines 41-42
LogoOverlap(lsize) == <<lsize[1] \div 2, lsize[2] \div 2>>

\* lines 44-45
Total(fsize, overlap) ==
  <<fsize[1] + overlap[1] + canvas_padding * 2, fsize[2] + overlap[2] + canvas_padding * 2>>

\* lines 40-47: canvas = Image.new("RGBA", (total_width, total_height), (0, 0, 0, 0))
NewCanvas ==
  /\ pc = "new_canvas"
  /\ logo_overlap' = LogoOverlap(Size(logo_scaled))
  /\ total' = Total(Size(frame), logo_overlap')
  /\ heap' = Alloc(New("RGBA", total'[1], total'[2], transparent))
  /\ nalloc' = nalloc + 1
  /\ canvas' = nalloc + 1
  /\ pc' = "paste_frame"
  /\ UNCHANGED <<a, logo, frame, a_rounded, logo_scaled, frame_size, window,
                 logo_pos, bbox, saved, printed, err>>

\* lines 50-51
Window(overlap) == <<canvas_padding, canvas_padding + overlap[2]>>

\* lines 50-52: canvas.paste(frame, (window_x, window_y), frame)
PasteFrame ==
  /\ pc = "paste_frame"
  /\ window' = Window(logo_overlap)
  /\ heap' = [heap EXCEPT ![canvas] =
                Paste(@, heap[frame], window'[1], window'[2], heap[frame])]
  /\ pc' = "paste_logo"
  /\ UNCHANGED <<nalloc, a, logo, frame, a_rounded, logo_scaled, canvas, frame_size,
                 logo_overlap, total, logo_pos, bbox, saved, printed, err>>

\* (mutant) the overlap left out
LogoPos_NoOverlap(win, fsize, overlap) == <<win[1] + fsize[1], win[2]>>

\* lines 56-57
LogoPos(win, fsize, overlap) == <<win[1] + fsize[1] - overlap[1], win[2] - overlap[2]>>

\* (mutant) the logo pasted under the frame
PasteLogo_Under ==
  /\ pc = "paste_logo"
  /\ logo_pos' = <<window[1] + Size(frame)[1] - logo_overlap[1], window[2] - logo_overlap[2]>>
  /\ LET c == heap[canvas]
     IN  heap' = [heap EXCEPT ![canvas] =
                    Paste(Paste(c.on, heap[logo_scaled], logo_pos'[1], logo_pos'[2],
                                heap[logo_scaled]),
                          c.src, c.x, c.y, c.src)]
  /\ pc' = "getbbox"
  /\ UNCHANGED <<nalloc, a, logo, frame, a_rounded, logo_scaled, canvas, frame_size,
                 logo_overlap, total, window, bbox, saved, printed, err>>

\* lines 56-58: canvas.paste(logo_scaled, (logo_x, logo_y), logo_scaled)
PasteLogo ==
  /\ pc = "paste_logo"
  /\ logo_pos' = LogoPos(window, Size(frame), logo_overlap)
  /\ heap' = [heap EXCEPT ![canvas] =
                Paste(@, heap[logo_scaled], logo_pos'[1], logo_pos'[2], heap[logo_scaled])]
  /\ pc' = "getbbox"
  /\ UNCHANGED <<nalloc, a, logo, frame, a_rounded, logo_scaled, canvas, frame_size,
                 logo_overlap, total, window, bbox, saved, printed, err>>

\* line 61: bbox = canvas.getbbox()
GetBBoxStep ==
  /\ pc = "getbbox"
  /\ bbox' = GetBBox(heap[canvas])
  /\ pc' = "crop"
  /\ UNCHANGED <<heap, nalloc, a, logo, frame, a_rounded, logo_scaled, canvas,
                 frame_size, logo_overlap, total, window, logo_pos, saved, printed, err>>

\* lines 65-67: the padded copy of the cropped canvas
Padded(t) ==
  Paste(New("RGBA", t.w + final_padding * 2, t.h + final_padding * 2, transparent),
        t, final_padding, final_padding, t)

\* lines 62-68: if bbox: crop, pad, canvas = final_canvas
CropAndPad ==
  /\ pc = "crop"
  /\ IF bbox # None
       THEN LET cropped == Crop(heap[canvas], bbox)
            IN  /\ heap' = [heap EXCEPT ![nalloc + 1] = cropped,
                                        ![nalloc + 2] = Padded(cropped)]
                /\ nalloc' = nalloc + 2
                /\ canvas' = nalloc + 2
       ELSE UNCHANGED <<heap, nalloc, canvas>>
  /\ pc' = "save"
  /\ UNCHANGED <<a, logo, frame, a_rounded, logo_scaled, frame_size, logo_overlap,
                 total, window, logo_pos, bbox, saved, printed, err>>

\* line 72: canvas.save(output_path, "PNG")
Save ==
  /\ pc = "save"
  /\ saved' = heap[canvas]
  /\ pc' = "print"
  /\ UNCHANGED <<heap, nalloc, a, logo, frame, a_rounded, logo_scaled, canvas,
                 frame_size, logo_overlap, total, window, logo_pos, bbox, printed, err>>

\* (mutant) the error of save swallowed
SaveFails_Swallowed ==
  /\ pc = "save"
  /\ pc' = "print"
  /\ err' = "save"
  /\ UNCHANGED <<heap, nalloc, a, logo, frame, a_rounded, logo_scaled, canvas,
                 frame_size, logo_overlap, total, window, logo_pos, bbox, saved, printed>>

\* line 72 raising (no write permission, no such directory)
SaveFails ==
  /\ pc = "save"
  /\ pc' = "error"
  /\ err' = "save"
  /\ UNCHANGED <<heap, nalloc, a, logo, frame, a_rounded, logo_scaled, canvas,
                 frame_size, logo_overlap, total, window, logo_pos, bbox, saved, printed>>

\* line 73: print(...)
PrintSaved ==
  /\ pc = "print"
  /\ printed' = TRUE
  /\ pc' = "done"
  /\ UNCHANGED <<heap, nalloc, a, logo, frame, a_rounded, logo_scaled, canvas,
                 frame_size, logo_overlap, total, window, logo_pos, bbox, saved, err>>

Next ==
  \/ OpenA \/ OpenAFails \/ OpenLogo \/ OpenLogoFails
  \/ NewFrame \/ DrawFrame \/ RoundCorners \/ PasteA
  \/ CopyLogo \/ ThumbnailLogo \/ NewCanvas \/ PasteFrame \/ PasteLogo
  \/ GetBBoxStep \/ CropAndPad \/ Save \/ SaveFails \/ PrintSaved

Spec == Init /\ [][Next]_vars

----------------------------------------------------------------------------
(* Properties *)

\* the canvas as composited by the two pastes (object 6 is rebound at line 68)
Composite == IF pc \in {"getbbox", "crop"} THEN heap[canvas] ELSE heap[canvas - 2]

AfterCrop == pc \in {"save", "print", "done"}

Written == saved # NoImage

InRect(x, y, left, upper, w, h) ==
  left <= x /\ x < left + w /\ upper <= y /\ y < upper + h

\* C1: the saved image is the composited canvas trimmed to the bounding box of
\* its non-transparent content plus 100 pixels on every side: width and height
\* are the box's plus 200, the outer band is (0, 0, 0, 0), the pixels inside are
\* the canvas's, and the content's bounding box is at (100, 100).
C1_SavedIsTrimmedCanvas ==
  Written =>
    LET c  == Composite
        bw == bbox[3] - bbox[1]
        bh == bbox[4] - bbox[2]
    IN  /\ saved.w = bw + 200
        /\ saved.h = bh + 200
        /\ \A x \in 0..(saved.w - 1), y \in 0..(saved.h - 1) :
             IF InRect(x, y, 100, 100, bw, bh)
               THEN Px(saved, x, y) = Px(c, bbox[1] + x - 100, bbox[2] + y - 100)
               ELSE Px(saved, x, y) = <<0, 0, 0, 0>>
        /\ GetBBox(saved) = <<100, 100, 100 + bw, 100 + bh>>

\* C1, the part that does not rest on the pixels' values: the size and the band
C1_SizeAndBand ==
  Written =>
    LET bw == bbox[3] - bbox[1]
        bh == bbox[4] - bbox[2]
    IN  /\ saved.w = bw + 200
        /\ saved.h = bh + 200
        /\ \A x \in 0..(saved.w - 1), y \in 0..(saved.h - 1) :
             ~InRect(x, y, 100, 100, bw, bh) => Px(saved, x, y) = <<0, 0, 0, 0>>

\* C3: a failing load or save ends combine() there: nothing runs after the
\* error, the message is not printed, and after a failed load nothing was
\* written; the message is printed only after the file was written.
C3_FailureTerminates ==
  [][/\ pc # "error"
     /\ (err' # "none" =>
           /\ pc' = "error"
           /\ ~printed'
           /\ UNCHANGED <<heap, nalloc, saved, canvas>>
           /\ (err' \in {"open_a", "open_logo"} => ~Written'))
     /\ (printed' => Written' /\ err' = "none")]_vars

C3_Witness == pc = "error" /\ err = "open_logo" /\ a # 0 /\ ~Written /\ ~printed

\* C4: whatever the screenshot and the logo, the composited canvas holds a
\* non-transparent pixel (the centre of the frame), getbbox() is not None and
\* the crop-and-pad branch runs.
C4_BBoxNeverNone ==
  /\ pc \in {"getbbox", "crop"} =>
       Alpha(heap[canvas], window[1] + frame_size[1] \div 2,
                           window[2] + frame_size[2] \div 2) # 0
  /\ (pc = "crop" \/ AfterCrop) => bbox # None
  /\ AfterCrop =>
       /\ nalloc = 8 /\ canvas = 8
       /\ heap[canvas].k = "paste" /\ heap[canvas].src.k = "crop"
       /\ heap[canvas].w = heap[canvas].src.w + 200

C4_Witness == pc = "save" /\ bbox # None /\ Size(a) = <<1, 1>> /\ canvas = 8

\* C5: the frame is 80 wider and 80 taller than the screenshot, which is pasted
\* at (40, 40) and so has 40 pixels of frame on each side; once pasted, every
\* frame pixel inside the rounded rectangle that no opaque screenshot pixel
\* covers is (20, 20, 20, 255).
C5_FrameAroundScreenshot ==
  /\ frame_size # None =>
       /\ frame_size = <<heap[a].w + 80, heap[a].h + 80>>
       /\ Size(frame) = frame_size
  /\ pc = "copy_logo" =>
       LET f == heap[frame]
           s == heap[a_rounded]
       IN  /\ f.k = "paste" /\ f.x = 40 /\ f.y = 40 /\ f.src = s
           /\ f.w - (f.x + s.w) = 40 /\ f.h - (f.y + s.h) = 40
           /\ \A x \in 0..(f.w - 1), y \in 0..(f.h - 1) :
                (/\ InRounded(x, y, f.w, f.h, 60)
                 /\ ~(InRect(x, y, 40, 40, s.w, s.h) /\ Alpha(s, x - 40, y - 40) = 255))
                  => Px(f, x, y) = <<20, 20, 20, 255>>

\* a frame around a screenshot whose own corner is cut off: the background shows there
C5_Witness ==
  /\ pc = "copy_logo"
  /\ Size(a) = <<45, 45>>
  /\ Alpha(heap[a_rounded], 0, 0) = 0
  /\ Px(heap[frame], 40, 40) = <<20, 20, 20, 255>>
  /\ Px(heap[frame], 62, 62) = <<200, 100, 50, 255>>

\* C6: the logo's centre column is the frame's right edge and its centre row the
\* frame's top edge: logo_x + lw div 2 = window_x + frame width, logo_y + lh div 2
\* = window_y, logo_y = 200, and the frame is pasted at (200, 200 + lh div 2).
C6_LogoAtTopRight ==
  (pc \in {"getbbox", "crop"} \/ AfterCrop) =>
    LET lw == heap[logo_scaled].w
        lh == heap[logo_scaled].h
        c  == Composite
    IN  /\ lw \in 1..650 /\ lh \in 1..650
        /\ logo_pos[1] + lw \div 2 = window[1] + heap[frame].w
        /\ logo_pos[2] + lh \div 2 = window[2]
        /\ logo_pos[2] = 200
        /\ window = <<200, 200 + lh \div 2>>
        /\ c.k = "paste" /\ <<c.x, c.y>> = logo_pos
        /\ c.on.k = "paste" /\ <<c.on.x, c.on.y>> = window

\* a logo of odd sides, where the floor matters
C6_Witness ==
  /\ pc = "getbbox"
  /\ Size(logo_scaled) = <<3, 3>>
  /\ logo_pos = <<200 + heap[frame].w - 1, 200>>

\* C7: the frame is pasted before the logo, so where both cover a canvas pixel
\* an opaque logo pixel replaces what the frame left there and a fully
\* transparent logo pixel leaves it as it was; an opaque logo pixel is still the
\* logo's in the saved image.
C7_LogoOverFrame ==
  /\ pc \in {"getbbox", "crop"} =>
       LET c == heap[canvas]
           l == heap[logo_scaled]
           f == heap[frame]
       IN  /\ c.k = "paste" /\ c.src = l
           /\ c.on.k = "paste" /\ c.on.src = f /\ c.on.on.k = "new"
           /\ \A i \in 0..(l.w - 1), j \in 0..(l.h - 1) :
                LET x == logo_pos[1] + i
                    y == logo_pos[2] + j
                IN  (InRect(x, y, 0, 0, c.w, c.h) /\ InRect(x, y, window[1], window[2], f.w, f.h)) =>
                      /\ Alpha(l, i, j) = 255 => Px(c, x, y) = Px(l, i, j)
                      /\ Alpha(l, i, j) = 0 =>
                           /\ Px(c, x, y) = Px(c.on, x, y)
                           /\ Alpha(f, x - window[1], y - window[2]) = 255 =>
                                Px(c, x, y) = Px(f, x - window[1], y - window[2])
  /\ Written =>
       LET l == heap[logo_scaled]
       IN  \A i \in 0..(l.w - 1), j \in 0..(l.h - 1) :
             LET x == logo_pos[1] + i
                 y == logo_pos[2] + j
             IN  (InRect(x, y, 0, 0, total[1], total[2]) /\ Alpha(l, i, j) = 255) =>
                   Px(saved, x - bbox[1] + 100, y - bbox[2] + 100) = Px(l, i, j)

\* an opaque and a transparent logo pixel, each over an opaque frame pixel
C7_Witness ==
  /\ pc = "getbbox"
  /\ LET l == heap[logo_scaled]
         f == heap[frame]
         Over(i, j, al) ==
           /\ Alpha(l, i, j) = al
           /\ InRect(logo_pos[1] + i, logo_pos[2] + j, window[1], window[2], f.w, f.h)
           /\ Alpha(f, logo_pos[1] + i - window[1], logo_pos[2] + j - window[2]) = 255
     IN  /\ \E i \in 0..(l.w - 1), j \in 0..(l.h - 1) : Over(i, j, 255)
         /\ \E i \in 0..(l.w - 1), j \in 0..(l.h - 1) : Over(i, j, 0)

\* C8: the pasted frame and the pasted logo lie inside the canvas, so neither
\* is clipped.
C8_NothingClipped ==
  (pc \in {"getbbox", "crop"} \/ AfterCrop) =>
    LET l == heap[logo_scaled]
        f == heap[frame]
    IN  /\ 0 <= window[1] /\ window[1] + f.w <= total[1]
        /\ 0 <= window[2] /\ window[2] + f.h <= total[2]
        /\ 0 <= logo_pos[1] /\ logo_pos[1] + l.w <= total[1]
        /\ 0 <= logo_pos[2] /\ logo_pos[2] + l.h <= total[2]

\* C9: every pixel of the scaled logo, and every frame pixel the logo's
\* rectangle does not cover, is in the saved image with the colour and the
\* alpha it had (pixels that fell outside the canvas aside).
C9_PixelsPreserved ==
  Written =>
    LET l == heap[logo_scaled]
        f == heap[frame]
        At(x, y) == Px(saved, x - bbox[1] + 100, y - bbox[2] + 100)
    IN  /\ \A i \in 0..(l.w - 1), j \in 0..(l.h - 1) :
             LET x == logo_pos[1] + i
                 y == logo_pos[2] + j
             IN  (InRect(x, y, 0, 0, total[1], total[2]) /\ Alpha(l, i, j) # 0) =>
                   At(x, y) = Px(l, i, j)
        /\ \A i \in 0..(f.w - 1), j \in 0..(f.h - 1) :
             LET x == window[1] + i
                 y == window[2] + j
             IN  (Alpha(f, i, j) # 0 /\ ~InRect(x, y, logo_pos[1], logo_pos[2], l.w, l.h)) =>
                   At(x, y) = Px(f, i, j)

\* C10: add_rounded_corners changes img in place and returns it: the same
\* object, the same size and colours, and the rounded-rectangle mask as alpha
\* whatever the alpha was; pasted, the screenshot is opaque inside the mask.
C10_AlphaIsMask ==
  [][/\ (pc = "round" /\ pc' = "paste_a") =>
          /\ a_rounded' = a /\ a' = a
          /\ heap'[a].w = heap[a].w /\ heap'[a].h = heap[a].h
          /\ \A x \in 0..(heap[a].w - 1), y \in 0..(heap[a].h - 1) :
               LET old == Px(heap[a], x, y)
                   new == Px(heap'[a], x, y)
               IN  /\ <<new[1], new[2], new[3]>> = <<old[1], old[2], old[3]>>
                   /\ new[4] = IF InRounded(x, y, heap[a].w, heap[a].h, 10) THEN 255 ELSE 0
     /\ (pc = "paste_a" /\ pc' = "copy_logo") =>
          \A x \in 0..(heap[a].w - 1), y \in 0..(heap[a].h - 1) :
            InRounded(x, y, heap[a].w, heap[a].h, 10) =>
              LET p == Px(heap[a_rounded], x, y)
              IN  Px(heap'[frame], 40 + x, 40 + y) = <<p[1], p[2], p[3], 255>>
    ]_vars

\* a screenshot pixel loaded fully transparent, opaque in the frame
C10_Witness ==
  /\ pc = "copy_logo"
  /\ a_rounded = a
  /\ Alpha(heap[a].on, 1, 0) = 0
  /\ Alpha(heap[a], 1, 0) = 255
  /\ Px(heap[frame], 41, 40) = <<9, 9, 9, 255>>

====
